---- MODULE Spec2Model ----
(***************************************************************************)
(* A model of the Comments class of src/index.js: the pipeline             *)
(* registrations (use, set, before, after), the composed hook runner       *)
(* (run) and the parsing entry points (parse, parseComment, parseTags,     *)
(* parseTag, parseType, parseInlineTags, extract).                         *)
(*                                                                         *)
(* JavaScript values are records carrying a "kind" field; undefined and    *)
(* null are records too, so that any two values can be compared.           *)
(* The functions of ./lib and the npm collaborators (extract-comments,     *)
(* tokenize-comment) are not part of src/index.js; they are modelled from  *)
(* their description in the specification, on a fixed pool of inputs.      *)
(* The `format` option is left off (opts.format !== true) throughout.      *)
(***************************************************************************)
EXTENDS Integers, Sequences, FiniteSets, TLC

\* ------------------------------------------------------------------ bounds
\* most hook handlers registered in total (before and after, all types)
MaxHooks == 3
\* most plugin functions passed to use()
MaxPlugins == 1
\* most raw tag lines of one comment
MaxTags == 2
\* most comment blocks of one source text
MaxComments == 2
\* most tokens pushed on this.tokens before the parse operations stop
MaxTokens == 2

VARIABLES
  options,   \* this.options
  plugins,   \* this.plugins: fns, middleware, before, after
  tokens,    \* Len(this.tokens)
  ast,       \* this.ast, as the source positions of the comments it holds
  emitted,   \* the 'comment' events delivered by the last operation, in order
  runner,    \* the function run(type) returned last, if any
  ret        \* the last operation: its name, arguments and outcome

vars == <<options, plugins, tokens, ast, emitted, runner, ret>>

\* ------------------------------------------------------------ JS values
Undefined == [kind |-> "undefined"]
Null == [kind |-> "null"]

\* JavaScript truthiness of an object-or-absent value
Truthy(v) == v.kind \notin {"undefined", "null"}

\* values of the `strict` option: false (or absent), true, and a truthy
\* value that is not the boolean true (such as 1)
StrictValues == {"false", "true", "1"}

\* `if (opts.strict)`
StrictTruthy(s) == s \in {"true", "1"}

\* `opts.strict === true`
StrictIsTrue(s) == s = "true"

\* handler values that can be registered; "notfn" is not callable
HookHandlers == {"upper", "rename", "noop", "notfn"}
Callable == {"upper", "rename", "noop", "override", "plugin"}

\* the keys under which the parse methods look up their handler
StageKeys == {"comment", "parseTags", "tag", "type", "inlineTag", "paramType"}

\* the options argument of a call: none, or a parse sub-configuration with
\* one entry, a function ("noop") or a value that is not a function ("notfn")
CallOptions ==
  {[k \in {} |-> "undefined"]}
    \cup {[parse |-> [x \in {k} |-> h]] : k \in StageKeys, h \in {"noop", "notfn"}}

\* a check that takes every registered value for a function
IsFunctionUnchecked(fn) == TRUE

\* `typeof fn === 'function'`
IsFunction(fn) == fn \in Callable

\* node types hooks are registered for
NodeTypes == {"param", "returns"}
Phases == {"before", "after"}

\* Object.assign({}, a, b) on objects used as maps: b's keys win
Assign(a, b) ==
  [k \in (DOMAIN a) \cup (DOMAIN b) |-> IF k \in DOMAIN b THEN b[k] ELSE a[k]]

\* parsers.<key> as a value: undefined when the key is absent
Get(obj, key) == IF key \in DOMAIN obj THEN obj[key] ELSE "undefined"

EmptyMap == [k \in {} |-> "undefined"]

\* a call without an options argument
NoOptions == EmptyMap

\* Object.assign({}, this.options, options)
MergeOptions(own, given) == Assign(own, given)
NoHooks == [t \in NodeTypes |-> <<>>]

\* ---------------------------------------------------------- constructor
Init ==
  /\ options \in {[strict |-> s, parse |-> EmptyMap] : s \in StrictValues}
  /\ plugins = [fns |-> <<>>, middleware |-> EmptyMap,
                before |-> NoHooks, after |-> NoHooks]
  /\ tokens = 0
  /\ ast = <<>>
  /\ emitted = <<>>
  /\ runner = [kind |-> "none"]
  /\ ret = [op |-> "new"]

\* --------------------------------------------------------- registrations
TotalHooks ==
  LET n(ph) == Len(plugins[ph]["param"]) + Len(plugins[ph]["returns"])
  IN n("before") + n("after")

\* this.plugins.fns = this.plugins.fns.concat(fn)
use(p, fn) == [p EXCEPT !.fns = @ \o <<fn>>]

\* this.plugins.middleware[type] = fn
set(p, type, fn) ==
  [p EXCEPT !.middleware = Assign(@, [k \in {type} |-> fn])]

\* a registration that starts a new list each time
beforeReplacing(p, type, fn) == [p EXCEPT !.before[type] = <<fn>>]

\* before[type] = before[type] || []; before[type].push(fn)
before(p, type, fn) == [p EXCEPT !.before[type] = Append(@, fn)]

\* after[type] = after[type] || []; after[type].push(fn)
after(p, type, fn) == [p EXCEPT !.after[type] = Append(@, fn)]

\* the plugin of the model, were it called with the instance: it registers
\* an override for the 'type' stage (comments => comments.set('type', ...))
CallPlugin(fn, p) == IF fn = "plugin" THEN set(p, "type", "override") ELSE p

Use(fn) ==
  /\ Len(plugins.fns) < MaxPlugins
  /\ plugins' = use(plugins, fn)
  /\ ret' = [op |-> "use", fn |-> fn]
  /\ emitted' = <<>>
  /\ UNCHANGED <<runner, options, tokens, ast>>

Set(type, fn) ==
  /\ plugins' = set(plugins, type, fn)
  /\ ret' = [op |-> "set", type |-> type, fn |-> fn]
  /\ emitted' = <<>>
  /\ UNCHANGED <<runner, options, tokens, ast>>

Before(type, fn) ==
  /\ TotalHooks < MaxHooks
  /\ plugins' = before(plugins, type, fn)
  /\ ret' = [op |-> "before", type |-> type, fn |-> fn]
  /\ emitted' = <<>>
  /\ UNCHANGED <<runner, options, tokens, ast>>

After(type, fn) ==
  /\ TotalHooks < MaxHooks
  /\ plugins' = after(plugins, type, fn)
  /\ ret' = [op |-> "after", type |-> type, fn |-> fn]
  /\ emitted' = <<>>
  /\ UNCHANGED <<runner, options, tokens, ast>>

\* -------------------------------------------------------------- run(type)
\* the handlers of the model, as functions of the node they receive
Upper(name) ==
  CASE name = "name" -> "NAME"
    [] name = "list" -> "LIST"
    [] name = "x" -> "X"
    [] OTHER -> name

\* fn.call(compiler, node): a new node, or undefined
CallHook(fn, node) ==
  CASE fn = "upper" -> [node EXCEPT !.name = Upper(@)]
    [] fn = "rename" -> [node EXCEPT !.name = "x"]
    [] OTHER -> Undefined

\* node = fn.call(compiler, node) || node
OrNode(result, node) == IF Truthy(result) THEN result ELSE node

\* the loop of the returned function over fns[i..], with the calls made so far
RECURSIVE RunLoop(_, _, _, _, _)
RunLoop(fns, i, node, type, calls) ==
  IF i > Len(fns)
  THEN [outcome |-> "return", value |-> node, calls |-> calls]
  ELSE IF ~IsFunction(fns[i])
  THEN [outcome |-> "throw", calls |-> calls,
        err |-> [kind |-> "TypeError", node |-> node, type |-> type]]
  ELSE RunLoop(fns, i + 1, OrNode(CallHook(fns[i], node), node), type,
               Append(calls, [fn |-> fns[i], node |-> node]))

\* a runner that takes the handlers of 'param' for every node
runAnyType(p, type, node) == RunLoop(p[type]["param"], 1, node, type, <<>>)

\* run(type)(node): plugins[node.type] || [] is read when the node arrives
run(p, type, node) ==
  LET registered == p[type]
      fns == IF node.type \in DOMAIN registered THEN registered[node.type] ELSE <<>>
  IN RunLoop(fns, 1, node, type, <<>>)

\* a closure that keeps the handler table as it was when run was called
CaptureCopy(p, type) == [copy |-> p[type]]

\* let plugins = this.plugins[type]: the closure holds the table object
\* itself, which before() and after() change in place
Capture(p, type) == [ref |-> type]

\* the table a closure sees when it looks into what it captured
Table(p, captured) ==
  IF "ref" \in DOMAIN captured THEN p[captured.ref] ELSE captured.copy

\* the function run(type) returns, applied to a node
applyRunner(p, r, node) ==
  LET registered == Table(p, r.table)
      fns == IF node.type \in DOMAIN registered THEN registered[node.type] ELSE <<>>
  IN RunLoop(fns, 1, node, r.phase, <<>>)

\* run(type), the returned function kept for later; `seen` notes how many
\* handlers each node type had at that moment
Run(type) ==
  /\ runner' = [kind |-> "runner", phase |-> type, table |-> Capture(plugins, type),
                seen |-> [t \in NodeTypes |-> Len(plugins[type][t])]]
  /\ ret' = [op |-> "runner", phase |-> type]
  /\ emitted' = <<>>
  /\ UNCHANGED <<options, plugins, tokens, ast>>

\* the kept function applied to a node
Apply(node) ==
  /\ runner.kind = "runner"
  /\ ret' = [op |-> "apply", phase |-> runner.phase, node |-> node,
             seen |-> runner.seen[node.type],
             result |-> applyRunner(plugins, runner, node)]
  /\ emitted' = <<>>
  /\ UNCHANGED <<options, plugins, tokens, ast, runner>>

RunNode(type, node) ==
  /\ ret' = [op |-> "run", phase |-> type, node |-> node,
             result |-> run(plugins, type, node)]
  /\ emitted' = <<>>
  /\ UNCHANGED <<runner, options, plugins, tokens, ast>>

\* ------------------------------------------------- inputs of the parsers
\* raw tag lines, as the tokenizer hands them over
RawLines ==
  { "@param {String} name desc",
    "@param name",
    "@param {Array<} list",
    "@private {string}",
    "@param {String name",
    "@param {String}" }

Descriptions == {"", "see {@link Foo}"}

\* all sequences over S of length at most n
RECURSIVE SeqUpTo(_, _)
SeqUpTo(S, n) ==
  IF n = 0 THEN {<<>>}
  ELSE LET shorter == SeqUpTo(S, n - 1)
       IN shorter \cup {Append(q, x) : q \in {r \in shorter : Len(r) = n - 1}, x \in S}

\* a raw tag line as a token: { raw: tok, value: tok }
Tok(line) == [kind |-> "tok", raw |-> line, value |-> line]

\* an extracted comment block: its body already holds the segments the
\* tokenizer will return for it
Block(loc, description, lines, valid) ==
  [kind |-> "block", loc |-> loc, valid |-> valid,
   value |-> [description |-> description, tags |-> lines]]

\* the comments parseComment is given as objects
CommentObjects ==
  {Block(1, "see {@link Foo}", t, TRUE) : t \in SeqUpTo(RawLines, MaxTags)}

\* the block bodies source texts are made of; the last is a configuration
\* comment, which isValid rejects
BlockBodies ==
  { [description |-> "see {@link Foo}", tags |-> <<"@param {String} name desc">>, valid |-> TRUE],
    [description |-> "", tags |-> <<"@param {String name", "@param name">>, valid |-> TRUE],
    [description |-> "", tags |-> <<"@param {Array<} list">>, valid |-> TRUE],
    [description |-> "eslint-disable", tags |-> <<>>, valid |-> FALSE] }

\* a source text, as the sequence of the blocks it contains
Texts == SeqUpTo(BlockBodies, MaxComments)

Return(v) == [outcome |-> "return", value |-> v]
Throw(kind) == [outcome |-> "throw", err |-> [kind |-> kind]]

\* ------------------------------------------------------------- ./lib
\* a tag as lib.parse.tag builds it
Tag(title, rawType, name, description) ==
  [kind |-> "tag", title |-> title, rawType |-> rawType, name |-> name,
   description |-> description, type |-> Undefined, inlineTags |-> Undefined,
   raw |-> Undefined, normalized |-> FALSE, validated |-> FALSE]

\* lib.parse.tag(tok): title, bracketed type literal, name, description;
\* unbalanced braces fail
parse_tag(tok) ==
  CASE tok.value = "@param {String} name desc" -> Return(Tag("param", "{String}", "name", "desc"))
    [] tok.value = "@param name" -> Return(Tag("param", "", "name", ""))
    [] tok.value = "@param {Array<} list" -> Return(Tag("param", "{Array<}", "list", ""))
    [] tok.value = "@private {string}" -> Return(Tag("private", "{string}", "", ""))
    [] tok.value = "@param {String}" -> Return(Tag("param", "{String}", "", ""))
    [] OTHER -> Throw("TagSyntaxError")

\* the title a raw token announces
TitleOf(tok) ==
  IF tok.value = "@private {string}" THEN "private" ELSE "param"

TypeForbidden == {"constructor", "private"}
TypeRequired == {"param", "returns", "type"}
NameExpected == {"param"}

\* lib.allows.type(tok): the tag's class does not forbid a type
allows_type(tok) == TitleOf(tok) \notin TypeForbidden

\* lib.expects.type(tag): the tag's class requires a type
expects_type(tag) == tag.title \in TypeRequired

\* the alias table of lib.normalize.tag
Canonical(title) ==
  CASE title \in {"arg", "argument"} -> "param"
    [] title = "return" -> "returns"
    [] OTHER -> title

\* lib.normalize.tag(tag, opts)
normalize_tag(tag) == [tag EXCEPT !.title = Canonical(@), !.normalized = TRUE]

\* lib.validate.tag(tag, opts): null when the tag's class expects a name and
\* the tag has none
validate_tag(tag) ==
  IF tag.title \in NameExpected /\ tag.name = ""
  THEN Null
  ELSE [tag EXCEPT !.validated = TRUE]

\* rawType.slice(1, -1)
Slice(rawType) ==
  CASE rawType = "{String}" -> "String"
    [] rawType = "{string}" -> "string"
    [] rawType = "{Array<}" -> "Array<"
    [] OTHER -> ""

TypeLiterals == {"String", "string", "Array<"}

\* lib.parse.type(str, tag, opts): an object whose value is the type AST;
\* unbalanced brackets fail
parse_type(str) ==
  IF str \in {"String", "string"}
  THEN Return([value |-> [kind |-> "NameType", name |-> str]])
  ELSE Throw("TypeSyntaxError")

\* lib.parse.inline(str, opts): the text and the {@tag value} markers in it
parse_inline(str) ==
  [kind |-> "inline", value |-> str,
   tags |-> IF str = "see {@link Foo}"
            THEN <<[kind |-> "inlineTag", raw |-> "{@link Foo}", tag |-> "link", value |-> "Foo"]>>
            ELSE <<>>]

\* ----------------------------------------------- middleware overrides
\* what the "override" handler of the model returns at each stage
CustomType == [kind |-> "NameType", name |-> "custom"]

CustomInline(str) == [kind |-> "inline", value |-> str, tags |-> <<>>]

\* a tag built without the core's normalization and validation
CustomTag(raw) ==
  [Tag("custom", "", "", "") EXCEPT !.raw = [kind |-> "string", value |-> raw]]

Reverse(q) == [i \in 1..Len(q) |-> q[Len(q) + 1 - i]]

\* one entry per raw line, last line first, null for a line without braces
CustomTags(comment) ==
  Reverse([i \in 1..Len(comment.tags) |->
            IF comment.tags[i] = "@param name" THEN Null ELSE CustomTag(comment.tags[i])])

CustomComment ==
  [kind |-> "comment", loc |-> 0, description |-> "see {@link Foo}",
   tags |-> <<>>, inlineTags |-> Undefined]

\* the override handlers, called as parsers.<stage>.call(this, ...)
CallTag(fn, raw) == IF fn = "override" THEN CustomTag(raw) ELSE Undefined
CallTags(fn, comment) == IF fn = "override" THEN CustomTags(comment) ELSE <<>>
CallComment(fn, comment) == IF fn = "override" THEN CustomComment ELSE Undefined
CallType(fn, str) == IF fn = "override" THEN CustomType ELSE Undefined
CallInline(fn, str) ==
  IF fn = "override" THEN CustomInline(str)
  ELSE [kind |-> "inline", value |-> "", tags |-> <<>>]
CallParamType(fn, str) == IF fn = "override" THEN "custom" ELSE "undefined"


\* ------------------------------------------------------------ parsers
\* an array value, where undefined is possible too
Arr(items) == [kind |-> "array", items |-> items]

Str(s) == [kind |-> "string", value |-> s]

\* a merge in which the registered handlers win
ParsersRegisteredFirst(p, opts) == Assign(opts.parse, p.middleware)

\* Object.assign({}, this.plugins.middleware, opts.parse)
Parsers(p, opts) == Assign(p.middleware, opts.parse)

\* the handler of a stage, or "undefined"
Handler(p, opts, stage) == Get(Parsers(p, opts), stage)

\* parseInlineTags(str, options)
parseInlineTags(str, opts, p) ==
  IF IsFunction(Handler(p, opts, "inlineTag"))
  THEN CallInline(Handler(p, opts, "inlineTag"), str)
  ELSE parse_inline(str)

\* let ast = lib.parse.type(str, tag, opts); return ast.value
TypeValue(parsed) ==
  IF parsed.outcome = "throw" THEN parsed ELSE Return(parsed.value.value)

\* parseType(str, tag, options)
parseType(str, opts, p) ==
  IF IsFunction(Handler(p, opts, "type"))
  THEN Return(CallType(Handler(p, opts, "type"), str))
  ELSE TypeValue(parse_type(str))

\* parseParamType(str, options)
parseParamType(str, opts, p) ==
  IF IsFunction(Handler(p, opts, "paramType"))
  THEN CallParamType(Handler(p, opts, "paramType"), str)
  ELSE str

\* catch (err) { if (opts.strict) throw err; return null; }
OnTagError(opts, thrown) ==
  IF StrictTruthy(opts.strict) THEN thrown ELSE Return(Null)

\* a refusal that never looks at the tag's class
TagRefusedUnparsedOnly(tag, tok) == ~Truthy(tag)

\* if (!tag || tag.rawType && !lib.allows.type(tok))
TagRefused(tag, tok) ==
  \/ ~Truthy(tag)
  \/ tag.rawType # "" /\ ~allows_type(tok)

\* if (tag && lib.expects.type(tag) && !tag.type)
TypeMissing(tag) == Truthy(tag) /\ expects_type(tag) /\ ~Truthy(tag.type)

\* if (opts.strict === true) return null; tag.type = null
OnTypeMissing(opts, tag) ==
  IF StrictIsTrue(opts.strict) THEN Null ELSE [tag EXCEPT !.type = Null]

\* tag.description = inline.value; tag.inlineTags = inline.tags
SetInline(node, inline) ==
  [node EXCEPT !.description = inline.value, !.inlineTags = Arr(inline.tags)]

\* if (tag.description) { ... parseInlineTags ... }
TagInline(tag, opts, p) ==
  IF tag.description # ""
  THEN SetInline(tag, parseInlineTags(tag.description, opts, p))
  ELSE tag

\* tag = lib.validate.tag(tag, opts); if (!tag) return null; inline tags
TagValidated(valid, opts, p) ==
  IF ~Truthy(valid) THEN Null ELSE TagInline(valid, opts, p)

\* tag = lib.normalize.tag(tag, opts); if (!tag) return null
TagNormalized(normal, opts, p) ==
  IF ~Truthy(normal) THEN Null ELSE TagValidated(validate_tag(normal), opts, p)

\* lines 410-426 of parseTag, unless the missing type made it return null
TagChecked(tag, opts, p) ==
  IF ~Truthy(tag) THEN Null ELSE TagNormalized(normalize_tag(tag), opts, p)

\* lines 403-408 of parseTag
TagSettled(tag, opts) ==
  IF TypeMissing(tag) THEN OnTypeMissing(opts, tag) ELSE tag

\* tag.type = this.parseType(...), a failure of which is not caught
TagWithType(tag, typed, opts, p) ==
  IF typed.outcome = "throw" THEN typed
  ELSE Return(TagChecked(TagSettled([tag EXCEPT !.type = typed.value], opts), opts, p))

\* lines 399-426 of parseTag, for a tag that lib.parse.tag returned
TagTyped(tag, opts, p) ==
  TagWithType(tag,
              IF tag.rawType # ""
              THEN parseType(Slice(tag.rawType), opts, p)
              ELSE Return(tag.type),
              opts, p)

\* lines 388-426 of parseTag, given what lib.parse.tag did
TagParsed(parsed, tok, opts, p) ==
  IF parsed.outcome = "throw" THEN OnTagError(opts, parsed)
  ELSE IF TagRefused(parsed.value, tok) THEN Return(Null)
  ELSE TagTyped(parsed.value, opts, p)

\* if (typeof tok === 'string') tok = { raw: tok, value: tok }
AsTok(token) == IF token.kind = "string" THEN Tok(token.value) ELSE token

\* parseTag(tok, options)
parseTag(token, opts, p) ==
  IF IsFunction(Handler(p, opts, "tag"))
  THEN Return(CallTag(Handler(p, opts, "tag"), AsTok(token).raw))
  ELSE TagParsed(parse_tag(AsTok(token)), AsTok(token), opts, p)

\* a loop that puts each tag in front of the earlier ones
PushTagFirst(tags, tag, raw) ==
  IF Truthy(tag) THEN <<[tag EXCEPT !.raw = [kind |-> "string", value |-> raw]]>> \o tags
  ELSE tags

\* if (tag) { define rawType, raw; tags.push(tag) }
PushTag(tags, tag, raw) ==
  IF Truthy(tag) THEN Append(tags, [tag EXCEPT !.raw = Str(raw)]) ELSE tags

\* for (let raw of comment.tags) { ... }: TagsStep is one round, given the
\* outcome r of its parseTag call
RECURSIVE TagsLoop(_, _, _, _, _)
TagsStep(raws, i, tags, opts, p, r) ==
  IF r.outcome = "throw" THEN r
  ELSE TagsLoop(raws, i + 1, PushTag(tags, r.value, raws[i]), opts, p)

TagsLoop(raws, i, tags, opts, p) ==
  IF i > Len(raws) THEN Return(tags)
  ELSE TagsStep(raws, i, tags, opts, p, parseTag(Str(raws[i]), opts, p))

\* parseTags(comment, options)
parseTags(comment, opts, p) ==
  IF IsFunction(Handler(p, opts, "parseTags"))
  THEN Return(CallTags(Handler(p, opts, "parseTags"), comment))
  ELSE TagsLoop(comment.tags, 1, <<>>, opts, p)

\* tokenize(comment.value, opts): description and raw tag lines of the body
tokenize(value) == [description |-> value.description, tags |-> value.tags]

\* this.emit('comment', comment); return comment.
\* `done` carries the tokens pushed and the events emitted so far.
Emit(comment, done) ==
  [outcome |-> "return", value |-> comment,
   pushed |-> done.pushed, events |-> Append(done.events, comment)]

\* an error leaving parseComment
Thrown(err, done) ==
  [outcome |-> "throw", err |-> err, pushed |-> done.pushed, events |-> done.events]

\* a tail that emits the comment as it received it
FinishUntouched(comment, opts, p, done) ==
  IF ~Truthy(comment) THEN Thrown([kind |-> "TypeError"], done)
  ELSE Emit(comment, done)

\* lines 307-320 of parseComment: inline tags of the description, then emit;
\* reading the description of undefined fails
Finish(comment, opts, p, done) ==
  IF ~Truthy(comment) THEN Thrown([kind |-> "TypeError"], done)
  ELSE IF comment.description # ""
  THEN Emit(SetInline(comment, parseInlineTags(comment.description, opts, p)), done)
  ELSE Emit(comment, done)

\* Object.assign({}, comment, tok)
Merged(comment, tok) ==
  [kind |-> "comment", loc |-> comment.loc, description |-> tok.description,
   tags |-> tok.tags, inlineTags |-> Undefined]

\* this.tokens.push(tok)
PushToken(done) == [done EXCEPT !.pushed = @ + 1]

\* comment.tags = this.parseTags(comment, options), then lines 307-320
CommentTagged(merged, tags, opts, p, done) ==
  IF tags.outcome = "throw" THEN Thrown(tags.err, done)
  ELSE Finish([merged EXCEPT !.tags = tags.value], opts, p, done)

\* lines 294-299 of parseComment
CommentTokenized(merged, opts, p, done) ==
  CommentTagged(merged, parseTags(merged, opts, p), opts, p, PushToken(done))

\* parseComment(comment, options), comment an extracted object
parseCommentObject(comment, opts, p, done) ==
  IF IsFunction(Handler(p, opts, "comment"))
  THEN Finish(CallComment(Handler(p, opts, "comment"), comment), opts, p, done)
  ELSE CommentTokenized(Merged(comment, tokenize(comment.value)), opts, p, done)

\* a validity check that accepts every block
isValidAny(comment) == TRUE

\* isValid(comment, options), without an isValid option
isValid(comment) == comment.valid

\* preprocess(comment, options), without a preprocess option: a copy
preprocess(comment) == comment

\* extract.block(str, opts): the blocks of the text with their positions
ExtractBlocks(text) ==
  [i \in 1..Len(text) |-> Block(i, text[i].description, text[i].tags, text[i].valid)]

Done(r) == [pushed |-> r.pushed, events |-> r.events]

\* the loop of extract(str, options, fn) with fn = parseComment: ExtractStep is
\* one round, given the outcome r of fn (comment = fn.call(this, comment) || comment)
RECURSIVE ExtractLoop(_, _, _, _, _, _)
ExtractStep(comments, i, res, opts, p, r) ==
  IF r.outcome = "throw" THEN r
  ELSE ExtractLoop(comments, i + 1,
                   Append(res, IF Truthy(r.value) THEN r.value ELSE preprocess(comments[i])),
                   opts, p, Done(r))

ExtractLoop(comments, i, res, opts, p, done) ==
  IF i > Len(comments)
  THEN [outcome |-> "return", value |-> res,
        pushed |-> done.pushed, events |-> done.events]
  ELSE IF ~isValid(comments[i])
  THEN ExtractLoop(comments, i + 1, res, opts, p, done)
  ELSE ExtractStep(comments, i, res, opts, p,
                   parseCommentObject(preprocess(comments[i]), opts, p, done))

NothingDone == [pushed |-> 0, events |-> <<>>]

\* extract(str, options, fn) as parse calls it
extract(text, opts, p) ==
  ExtractLoop(ExtractBlocks(text), 1, <<>>, opts, p, NothingDone)

\* the positions of the comments of a list
Locs(comments) == [i \in 1..Len(comments) |-> comments[i].loc]

\* comment = this.parse.apply(this, arguments)[0], then lines 307-320
FirstParsed(r, opts, p) ==
  IF r.outcome = "throw" THEN r @@ [parsed |-> FALSE]
  ELSE Finish(IF Len(r.value) > 0 THEN r.value[1] ELSE Undefined, opts, p, Done(r))
       @@ [parsed |-> TRUE, ast |-> Locs(r.value)]

\* parseComment(comment, options), comment a string
parseCommentString(text, opts, p) ==
  IF IsFunction(Handler(p, opts, "comment"))
  THEN Finish(CallComment(Handler(p, opts, "comment"), Str("")), opts, p, NothingDone)
       @@ [parsed |-> FALSE]
  ELSE FirstParsed(extract(text, opts, p), opts, p)

\* what the caller of an operation sees of its outcome
Outcome(r) ==
  IF r.outcome = "throw" THEN [outcome |-> "throw", err |-> r.err]
  ELSE Return(r.value)

\* -------------------------------------------------- parsing operations
\* each takes the options argument `o` of the call (NoOptions when left out)
ParseType(str, o) ==
  /\ ret' = [op |-> "parseType", arg |-> str, options |-> o,
             result |-> parseType(str, MergeOptions(options, o), plugins)]
  /\ emitted' = <<>>
  /\ UNCHANGED <<runner, options, plugins, tokens, ast>>

ParseParamType(str, o) ==
  /\ ret' = [op |-> "parseParamType", arg |-> str, options |-> o,
             result |-> Return(Str(parseParamType(str, MergeOptions(options, o), plugins)))]
  /\ emitted' = <<>>
  /\ UNCHANGED <<runner, options, plugins, tokens, ast>>

ParseInlineTags(str, o) ==
  /\ ret' = [op |-> "parseInlineTags", arg |-> str, options |-> o,
             result |-> Return(parseInlineTags(str, MergeOptions(options, o), plugins))]
  /\ emitted' = <<>>
  /\ UNCHANGED <<runner, options, plugins, tokens, ast>>

ParseTag(line, o) ==
  /\ ret' = [op |-> "parseTag", arg |-> line, options |-> o,
             result |-> parseTag(Str(line), MergeOptions(options, o), plugins)]
  /\ emitted' = <<>>
  /\ UNCHANGED <<runner, options, plugins, tokens, ast>>

\* parseTags(comment, options), comment a tokenized comment
ParseTags(comment, o) ==
  /\ ret' = [op |-> "parseTags", arg |-> comment, options |-> o,
             result |-> parseTags(comment, MergeOptions(options, o), plugins)]
  /\ emitted' = <<>>
  /\ UNCHANGED <<runner, options, plugins, tokens, ast>>

ParseCommentObject(comment, o) ==
  \E r \in {parseCommentObject(comment, MergeOptions(options, o), plugins, NothingDone)} :
     /\ tokens + r.pushed <= MaxTokens
     /\ tokens' = tokens + r.pushed
     /\ emitted' = r.events
     /\ ret' = [op |-> "parseComment", arg |-> comment, options |-> o,
                result |-> Outcome(r)]
     /\ UNCHANGED <<runner, options, plugins, ast>>

ParseCommentString(text, o) ==
  \E r \in {parseCommentString(text, MergeOptions(options, o), plugins)} :
     /\ tokens + r.pushed <= MaxTokens
     /\ tokens' = tokens + r.pushed
     /\ emitted' = r.events
     /\ ast' = IF r.parsed THEN r.ast ELSE ast
     /\ ret' = [op |-> "parseCommentString", arg |-> text, options |-> o,
                result |-> Outcome(r)]
     /\ UNCHANGED <<runner, options, plugins>>

\* parse(str, options): this.ast = this.extract(...); return this.ast
Parse(text, o) ==
  \E r \in {extract(text, MergeOptions(options, o), plugins)} :
     /\ tokens + r.pushed <= MaxTokens
     /\ tokens' = tokens + r.pushed
     /\ emitted' = r.events
     /\ ast' = IF r.outcome = "return" THEN Locs(r.value) ELSE ast
     /\ ret' = [op |-> "parse", arg |-> text, options |-> o, result |-> Outcome(r)]
     /\ UNCHANGED <<runner, options, plugins>>

\* ------------------------------------------------------ specifications
RunNodes == {[kind |-> "node", type |-> t, name |-> "name"] : t \in NodeTypes}

\* the hooks and the composed runner, over every handler and node type
NextRun ==
  \/ \E t \in NodeTypes, fn \in HookHandlers : Before(t, fn)
  \/ \E t \in NodeTypes, fn \in HookHandlers : After(t, fn)
  \/ \E ph \in Phases, n \in RunNodes : RunNode(ph, n)

SpecRun == Init /\ [][NextRun]_vars

MiddlewareKeys == {"comment", "parseTags", "tag"}

\* the parsing entry points under every combination of overrides
NextParse ==
  \/ \E k \in MiddlewareKeys : Set(k, "override")
  \/ \E line \in RawLines : ParseTag(line, NoOptions)
  \/ \E c \in CommentObjects : ParseCommentObject(c, NoOptions)
  \/ \E text \in Texts : ParseCommentString(text, NoOptions)
  \/ \E text \in Texts : Parse(text, NoOptions)

SpecParse == Init /\ [][NextParse]_vars

\* parseTag alone under every combination of overrides
NextTag ==
  \/ \E k \in MiddlewareKeys : Set(k, "override")
  \/ \E line \in RawLines : ParseTag(line, NoOptions)

SpecTag == Init /\ [][NextTag]_vars

\* parseComment on extracted comments under every combination of overrides
NextComment ==
  \/ \E k \in MiddlewareKeys : Set(k, "override")
  \/ \E c \in CommentObjects : ParseCommentObject(c, NoOptions)

SpecComment == Init /\ [][NextComment]_vars

\* parse on source texts under every combination of overrides
NextBatch ==
  \/ \E k \in MiddlewareKeys : Set(k, "override")
  \/ \E text \in Texts : Parse(text, NoOptions)

SpecBatch == Init /\ [][NextBatch]_vars

\* every parse method under every registration and every options argument
OneComment == Block(1, "see {@link Foo}", <<"@param {String} name desc">>, TRUE)

NextResolve ==
  \/ \E k \in StageKeys : Set(k, "override")
  \/ \E o \in CallOptions : ParseType("String", o)
  \/ \E o \in CallOptions : ParseParamType("String", o)
  \/ \E o \in CallOptions : ParseInlineTags("see {@link Foo}", o)
  \/ \E o \in CallOptions : ParseTag("@param {String} name desc", o)
  \/ \E o \in CallOptions : ParseTags(Merged(OneComment, tokenize(OneComment.value)), o)
  \/ \E o \in CallOptions : ParseCommentObject(OneComment, o)

SpecResolve == Init /\ [][NextResolve]_vars

\* run(type) kept and applied later, with registrations in between
DeferredHandlers == {"upper", "rename", "notfn"}

NextDeferred ==
  \/ \E t \in NodeTypes, fn \in DeferredHandlers : Before(t, fn)
  \/ \E t \in NodeTypes, fn \in DeferredHandlers : After(t, fn)
  \/ \E ph \in Phases : Run(ph)
  \/ \E n \in RunNodes : Apply(n)

SpecDeferred == Init /\ [][NextDeferred]_vars

\* every operation of an instance, on a few inputs each
FewLines == {"@param {String} name desc", "@param {String name"}
FewComments == {Block(1, "see {@link Foo}", <<line>>, TRUE) : line \in FewLines}
FewTexts == {<<b>> : b \in {c \in BlockBodies : Len(c.tags) < 2}}

\* parseComment under overrides of the 'comment' and 'inlineTag' stages
NextOverride ==
  \/ \E k \in {"comment", "inlineTag"} : Set(k, "override")
  \/ \E c \in FewComments : ParseCommentObject(c, NoOptions)
  \/ \E text \in FewTexts : ParseCommentString(text, NoOptions)

SpecOverride == Init /\ [][NextOverride]_vars

Next ==
  \/ Use("plugin")
  \/ Set("tag", "override")
  \/ \E fn \in {"upper", "notfn"} : Before("param", fn)
  \/ \E fn \in {"upper", "notfn"} : After("param", fn)
  \/ \E ph \in Phases : RunNode(ph, [kind |-> "node", type |-> "param", name |-> "name"])
  \/ \E str \in TypeLiterals : ParseType(str, NoOptions)
  \/ ParseParamType("String", NoOptions)
  \/ \E str \in Descriptions : ParseInlineTags(str, NoOptions)
  \/ \E line \in FewLines : ParseTag(line, NoOptions)
  \/ \E c \in FewComments : ParseCommentObject(c, NoOptions)
  \/ \E text \in FewTexts : ParseCommentString(text, NoOptions)
  \/ \E text \in FewTexts : Parse(text, NoOptions)

Spec == Init /\ [][Next]_vars

\* ================================================================ claims
Returned == ret.result.outcome = "return"

\* no override of the given stages is in effect
NotOverridden(stages) ==
  \A k \in stages : Handler(plugins, options, k) \notin Callable

CoreStages == {"comment", "parseTags", "tag", "type", "inlineTag"}

\* ----------------------------------------------------------------- C1
\* C1 (as claimed): hooks registered with before(type, fn) are applied when a
\* comment is parsed; with a before handler for 'param' that uppercases the
\* name, every param tag that parseTag or parseComment produces has an
\* uppercased name.
C1_HooksAppliedOnParse ==
  (plugins.before["param"] = <<"upper">> /\ plugins.after["param"] = <<>>
     /\ NotOverridden(CoreStages))
  => /\ (ret.op = "parseTag" /\ Returned /\ Truthy(ret.result.value)
           /\ ret.result.value.title = "param")
        => ret.result.value.name = Upper(ret.result.value.name)
     /\ (ret.op = "parseComment" /\ Returned)
        => \A i \in 1..Len(ret.result.value.tags) :
             ret.result.value.tags[i].title = "param"
             => ret.result.value.tags[i].name = Upper(ret.result.value.tags[i].name)

\* ----------------------------------------------------------------- C2
\* a raw line whose tag parse or type parse fails
LineFails(line) ==
  \/ parse_tag(Tok(line)).outcome = "throw"
  \/ /\ parse_tag(Tok(line)).value.rawType # ""
     /\ parse_type(Slice(parse_tag(Tok(line)).value.rawType)).outcome = "throw"

\* the raw lines of the tags of a list
Raws(tags) == [i \in 1..Len(tags) |-> tags[i].raw.value]

\* the members of a sequence
Range(q) == {q[i] : i \in 1..Len(q)}

\* C2 (as claimed): with strict = false neither a malformed tag line nor a
\* malformed type literal makes parseTag or parseComment throw; parseTag
\* returns null for the failing line, the comment's tag list omits it and
\* keeps every line that parseTag accepts.
C2_NonStrictNeverThrows ==
  (~StrictTruthy(options.strict) /\ NotOverridden(CoreStages))
  => /\ (ret.op = "parseTag" /\ LineFails(ret.arg))
        => (Returned /\ ret.result.value = Null)
     /\ ret.op = "parseComment"
        => /\ Returned
           /\ \A line \in Range(ret.arg.value.tags) :
                /\ LineFails(line) => line \notin Range(Raws(ret.result.value.tags))
                /\ (~LineFails(line) /\ Truthy(parseTag(Str(line), options, plugins).value))
                   => line \in Range(Raws(ret.result.value.tags))

\* ----------------------------------------------------------------- C3
\* block i of a text is valid and parses on its own without an error
ParsesAlone(text, i) ==
  /\ text[i].valid
  /\ parseCommentObject(ExtractBlocks(text)[i], options, plugins, NothingDone).outcome
       = "return"

\* C3 (as claimed): with strict = true the failure of one comment of a batch
\* leaves the others unaffected: every block of the text that parses on its
\* own is still parsed (and announced) by parse(text).
C3_StrictFailureIsolated ==
  (ret.op = "parse" /\ StrictTruthy(options.strict) /\ NotOverridden(CoreStages))
  => \A i \in 1..Len(ret.arg) :
       ParsesAlone(ret.arg, i) => \E e \in 1..Len(emitted) : emitted[e].loc = i

\* ----------------------------------------------------------------- C4
\* C4 (as claimed): the 'comment' event is fired exactly once per produced
\* Comment, in production order, whichever entry point produced it.
C4_OneEventPerComment ==
  /\ (ret.op = "parse" /\ Returned) => emitted = ret.result.value
  /\ (ret.op \in {"parseComment", "parseCommentString"} /\ Returned)
     => emitted = <<ret.result.value>>

\* ----------------------------------------------------------------- C5
\* a raw line of the type-forbidden class that carries a type literal
ForbiddenTyped(line) ==
  /\ parse_tag(Tok(line)).outcome = "return"
  /\ parse_tag(Tok(line)).value.title \in TypeForbidden
  /\ parse_tag(Tok(line)).value.rawType # ""

RequiredUntyped(line) ==
  /\ parse_tag(Tok(line)).outcome = "return"
  /\ parse_tag(Tok(line)).value.title \in TypeRequired
  /\ parse_tag(Tok(line)).value.rawType = ""

\* C6 (as claimed): for a type-required tag without a type, parseTag keeps
\* the tag with type = null in non-strict mode and rejects it in strict mode,
\* strict mode being decided as it is for tag-syntax errors (`if (opts.strict)`)
\* for every value of the option.
C6_MissingTypeFollowsStrict ==
  (ret.op = "parseTag" /\ RequiredUntyped(ret.arg) /\ NotOverridden({"tag"}))
  => /\ Returned
     /\ IF StrictTruthy(options.strict)
        THEN ret.result.value = Null
        ELSE Truthy(ret.result.value) /\ ret.result.value.type = Null

\* ----------------------------------------------------------------- C7
\* q is an order-preserving subsequence of r
IsSubseq(q, r) ==
  \E f \in [1..Len(q) -> 1..Len(r)] :
    /\ \A i \in 1..Len(q) : r[f[i]] = q[i]
    /\ \A i, j \in 1..Len(q) : i < j => f[i] < f[j]

\* every entry is a tag that passed normalize and validate, and the entries
\* follow the order of the raw lines they come from
TagsChecked(tags, lines) ==
  /\ \A i \in 1..Len(tags) :
       Truthy(tags[i]) /\ tags[i].normalized /\ tags[i].validated
       /\ tags[i].raw.kind = "string"
  /\ IsSubseq(Raws(tags), lines)

\* the comments the last operation returned
Produced ==
  IF ret.op \notin {"parse", "parseComment", "parseCommentString"} THEN <<>>
  ELSE IF ~Returned THEN <<>>
  ELSE IF ret.op = "parse" THEN ret.result.value
  ELSE <<ret.result.value>>

\* the raw tag lines the tokenizer gave for a produced comment
SourceLines(comment) ==
  IF ret.op = "parseComment" THEN ret.arg.value.tags
  ELSE IF comment.loc \in 1..Len(ret.arg) THEN ret.arg[comment.loc].tags
  ELSE <<>>

\* C7 (as claimed): whatever handlers are registered, the tags of every
\* returned Comment are in source order, without null entries, and each has
\* passed normalize and validate.
C7_TagsAlwaysChecked ==
  \A i \in 1..Len(Produced) :
    TagsChecked(Produced[i].tags, SourceLines(Produced[i]))

\* C7 (amended): when no override of 'comment', 'parseTags' or 'tag' is in
\* effect, the tags of every returned Comment are in source order, without
\* null entries, and each has passed normalize and validate.
C7_CoreTagsChecked ==
  NotOverridden({"comment", "parseTags", "tag"})
  => \A i \in 1..Len(Produced) :
       TagsChecked(Produced[i].tags, SourceLines(Produced[i]))

C7_Witness ==
  /\ ret.op = "parseComment"
  /\ Returned
  /\ NotOverridden({"comment", "parseTags", "tag"})
  /\ ret.arg.value.tags = <<"@param {String}", "@param {String} name desc">>
  /\ Raws(ret.result.value.tags) = <<"@param {String} name desc">>

\* ----------------------------------------------------------------- C8
\* the handlers registered under the phase and node type of the last run
Registered == plugins[ret.phase][ret.node.type]

\* the node a recorded call passes on: what the handler returned, or the node
\* it received when it returned nothing
PassedOn(call) ==
  IF CallHook(call.fn, call.node) = Undefined THEN call.node
  ELSE CallHook(call.fn, call.node)

\* calls i..j are the registered handlers i..j, each given the node the
\* previous one passed on, the first given `node`
Chained(calls, node, n) ==
  /\ Len(calls) = n
  /\ \A i \in 1..n : calls[i].fn = Registered[i]
  /\ n > 0 => calls[1].node = node
  /\ \A i \in 2..n : calls[i].node = PassedOn(calls[i - 1])

\* C8: run(phase)(node) applies exactly the handlers registered under that
\* phase for node.type, each once, in registration order, each receiving the
\* node the previous one returned (a handler returning nothing passes its node
\* on unchanged), and returns the last node; with no handler registered the
\* node is returned unchanged.
C8_RunAppliesRegistered ==
  (ret.op = "run" /\ \A i \in 1..Len(Registered) : Registered[i] \in Callable)
  => /\ Returned
     /\ Chained(ret.result.calls, ret.node, Len(Registered))
     /\ ret.result.value = IF Len(Registered) = 0 THEN ret.node
                           ELSE PassedOn(ret.result.calls[Len(Registered)])

C8_Witness ==
  /\ ret.op = "run"
  /\ ret.phase = "before"
  /\ ret.node.type = "param"
  /\ plugins.before["param"] = <<"noop", "upper">>
  /\ plugins.after["param"] # <<>>
  /\ ret.result.value.name = "NAME"

\* ----------------------------------------------------------------- C9
\* the position of the first registered handler that is not callable
FirstBad ==
  CHOOSE k \in 1..Len(Registered) :
    Registered[k] \notin Callable /\ \A i \in 1..(k - 1) : Registered[i] \in Callable

\* C9: when run(phase)(node) reaches a registered handler that is not
\* callable it throws a type error carrying the node as the earlier handlers
\* left it and the phase; no later handler runs; the strict option plays no
\* part.
C9_NonCallableThrows ==
  (ret.op = "run" /\ \E i \in 1..Len(Registered) : Registered[i] \notin Callable)
  => /\ ret.result.outcome = "throw"
     /\ ret.result.err.kind = "TypeError"
     /\ ret.result.err.type = ret.phase
     /\ Chained(ret.result.calls, ret.node, FirstBad - 1)
     /\ ret.result.err.node = IF FirstBad = 1 THEN ret.node
                              ELSE PassedOn(ret.result.calls[FirstBad - 1])

C9_Witness ==
  /\ ret.op = "run"
  /\ StrictTruthy(options.strict)
  /\ Registered = <<"upper", "notfn", "rename">>
  /\ ret.result.outcome = "throw"
  /\ ret.result.err.node.name = "NAME"
  /\ Len(ret.result.calls) = 1

\* ---------------------------------------------------------------- C10
IsPrefix(q, r) == Len(q) <= Len(r) /\ \A i \in 1..Len(q) : r[i] = q[i]

ParseOps ==
  {"parse", "parseComment", "parseCommentString", "parseTags", "parseTag",
   "parseType", "parseParamType", "parseInlineTags"}

\* one step keeps every registration: lists only gain entries at the end, a
\* middleware key stays and changes only by set() of that key, and a parsing
\* operation changes nothing
RegistrationsKept ==
  /\ \A ph \in Phases, t \in NodeTypes : IsPrefix(plugins[ph][t], plugins'[ph][t])
  /\ IsPrefix(plugins.fns, plugins'.fns)
  /\ \A k \in DOMAIN plugins.middleware :
       /\ k \in DOMAIN plugins'.middleware
       /\ plugins'.middleware[k] # plugins.middleware[k]
          => (ret'.op = "set" /\ ret'.type = k)
  /\ ret'.op \in ParseOps => plugins' = plugins

CommentOverridden == Handler(plugins, options, "comment") \in Callable

\* what the 'comment' override returns for the argument of the last call
OverrideResult ==
  CallComment(Handler(plugins, options, "comment"),
              IF ret.op = "parseComment" THEN ret.arg ELSE Str(""))

\* the override's node after the common tail of parseComment: a non-empty
\* description is replaced by the inline parser's text and the inline
\* references are attached
AfterTail(node) ==
  IF node.description = "" THEN node
  ELSE [node EXCEPT
          !.description =
             parseInlineTags(node.description, MergeOptions(options, ret.options), plugins).value,
          !.inlineTags =
             Arr(parseInlineTags(node.description, MergeOptions(options, ret.options), plugins).tags)]

\* C11 (as claimed): with a 'comment' override in effect the Comment that
\* parseComment emits and returns is exactly the override's result, without
\* inline-reference rewriting or any other post-processing.
C11_OverrideResultUntouched ==
  (ret.op \in {"parseComment", "parseCommentString"} /\ CommentOverridden)
  => /\ Returned
     /\ ret.result.value = OverrideResult
     /\ emitted = <<OverrideResult>>

\* the step of a parseComment call under a 'comment' override
OverrideStep ==
  (ret'.op \in {"parseComment", "parseCommentString"}
     /\ Handler(plugins, options, "comment") = "override")
  => /\ tokens' = tokens
     /\ ast' = ast
     /\ ret'.result = Return(AfterTail(OverrideResult)')
     /\ ret'.result.value.tags = OverrideResult'.tags
     /\ emitted' = <<ret'.result.value>>

\* C11 (amended): with a 'comment' override in effect parseComment does not
\* tokenize the comment and does not parse its tags, but the node the
\* override returns still goes through the common tail: when its description
\* is not empty the description is run through parseInlineTags and the inline
\* references are attached to the node; the node is then emitted once and
\* returned.
C11_OverrideThenTail == [][OverrideStep]_vars

C11_Witness ==
  /\ ret.op = "parseComment"
  /\ CommentOverridden
  /\ Len(ret.arg.value.tags) = 1
  /\ Returned
  /\ ret.result.value.tags = <<>>
  /\ OverrideResult.inlineTags = Undefined
  /\ ret.result.value.inlineTags.kind = "array"
  /\ Len(ret.result.value.inlineTags.items) = 1
  /\ tokens = 0

\* ---------------------------------------------------------------- C12
\* a step of parseComment, parseTag or parseType leaves the instance as it was
ParseCallPure ==
  ret'.op \in {"parseComment", "parseCommentString", "parseTag", "parseType"}
  => /\ options' = options
     /\ plugins' = plugins
     /\ tokens' = tokens
     /\ ast' = ast

\* C12 (as claimed): every parseComment, parseTag and parseType call is
\* side-effect-free apart from the 'comment' notification: options, plugins,
\* tokens and ast are after the call what they were before it.
C12_ParseCallsPure == [][ParseCallPure]_vars

\* ---------------------------------------------------------------- C13
\* C13 (as claimed): once use(fn) has been called, fn has been applied to the
\* instance by the time a parse operation runs: the registrations fn makes
\* are in effect for that operation (applying fn again would change nothing),
\* and parseType answers with the handler fn registered.
C13_PluginApplied ==
  (ret.op \in ParseOps /\ Len(plugins.fns) > 0)
  => /\ \A i \in 1..Len(plugins.fns) : CallPlugin(plugins.fns[i], plugins) = plugins
     /\ (ret.op = "parseType" /\ "plugin" \in Range(plugins.fns))
        => ret.result = Return(CustomType)

\* ---------------------------------------------------------------- C14
\* the positions of the blocks of a text that the validity check accepts
ValidPositions(text) ==
  SelectSeq([i \in 1..Len(text) |-> i], LAMBDA i : text[i].valid)

\* the step of a parse(text) call: only accepted blocks are tokenized and
\* announced, in extraction order, and a returned result has one entry for
\* each of them, in that order
ParseKeepsValid ==
  ret'.op = "parse"
  => /\ Len(emitted') <= Len(ValidPositions(ret'.arg))
     /\ Handler(plugins, options, "comment") \notin Callable
        => /\ IsPrefix(Locs(emitted'), ValidPositions(ret'.arg))
           /\ tokens' - tokens <= Len(ValidPositions(ret'.arg))
     /\ ret'.result.outcome = "return"
        => /\ Len(ret'.result.value) = Len(ValidPositions(ret'.arg))
           /\ Len(emitted') = Len(ValidPositions(ret'.arg))
           /\ Handler(plugins, options, "comment") \notin Callable
              => /\ Locs(ret'.result.value) = ValidPositions(ret'.arg)
                 /\ Locs(emitted') = ValidPositions(ret'.arg)
                 /\ tokens' = tokens + Len(ValidPositions(ret'.arg))

\* C14: the result of parse(text) holds, in extraction order, exactly one
\* entry for each extracted block that isValid did not reject; a rejected
\* block is never tokenized or parsed, never announced by a 'comment' event
\* and never present in the result.
C14_ValidBlocksOnly == [][ParseKeepsValid]_vars

C14_Witness ==
  /\ ret.op = "parse"
  /\ Returned
  /\ Len(ret.arg) = 2
  /\ ~ret.arg[1].valid
  /\ ret.arg[2].valid
  /\ ~CommentOverridden
  /\ Locs(ret.result.value) = <<2>>
  /\ Locs(emitted) = <<2>>
  /\ tokens = 1

\* ---------------------------------------------------------------- C15
\* the key a parse method looks its handler up under
StageOf(op) ==
  CASE op = "parseComment" -> "comment"
    [] op = "parseTags" -> "parseTags"
    [] op = "parseTag" -> "tag"
    [] op = "parseInlineTags" -> "inlineTag"
    [] op = "parseType" -> "type"
    [] op = "parseParamType" -> "paramType"

StagedOps ==
  {"parseComment", "parseTags", "parseTag", "parseInlineTags", "parseType",
   "parseParamType"}

\* the parse sub-configuration of the last call: the one given with the call,
\* else the constructor's
SubConfig ==
  IF "parse" \in DOMAIN ret.options THEN ret.options.parse ELSE options.parse

\* the handler the claim resolves for the last call: the sub-configuration's
\* entry when there is one, else the one registered with set()
Resolved ==
  IF StageOf(ret.op) \in DOMAIN SubConfig THEN SubConfig[StageOf(ret.op)]
  ELSE IF StageOf(ret.op) \in DOMAIN plugins.middleware
  THEN plugins.middleware[StageOf(ret.op)]
  ELSE "undefined"

\* the last call returned what the resolved handler returns for its argument
HandlerResultReturned ==
  /\ ret.op = "parseTags" => ret.result = Return(CallTags(Resolved, ret.arg))
  /\ ret.op = "parseTag" => ret.result = Return(CallTag(Resolved, ret.arg))
  /\ ret.op = "parseInlineTags" => ret.result = Return(CallInline(Resolved, ret.arg))
  /\ ret.op = "parseType" => ret.result = Return(CallType(Resolved, ret.arg))
  /\ ret.op = "parseParamType" => ret.result = Return(Str(CallParamType(Resolved, ret.arg)))

\* C15 (as claimed): in each of the six parse methods the sub-configuration's
\* entry for the stage wins over the handler registered with set(), and when
\* the resolved handler is a function its return value (a node, for
\* parseComment) is the result of the method, parseComment included.
C15_HandlerResultIsResult ==
  (ret.op \in StagedOps /\ Resolved \in Callable)
  => /\ HandlerResultReturned
     /\ (ret.op = "parseComment" /\ Truthy(CallComment(Resolved, ret.arg)))
        => ret.result = Return(CallComment(Resolved, ret.arg))

\* a map without one key
Without(map, k) == [x \in (DOMAIN map) \ {k} |-> map[x]]

\* the last call repeated with no entry at all for its stage
BuiltIn ==
  LET k == StageOf(ret.op)
      o == [MergeOptions(options, ret.options) EXCEPT !.parse = Without(@, k)]
      p == [plugins EXCEPT !.middleware = Without(@, k)]
  IN CASE ret.op = "parseComment" -> Outcome(parseCommentObject(ret.arg, o, p, NothingDone))
       [] ret.op = "parseTags" -> parseTags(ret.arg, o, p)
       [] ret.op = "parseTag" -> parseTag(Str(ret.arg), o, p)
       [] ret.op = "parseInlineTags" -> Return(parseInlineTags(ret.arg, o, p))
       [] ret.op = "parseType" -> parseType(ret.arg, o, p)
       [] ret.op = "parseParamType" -> Return(Str(parseParamType(ret.arg, o, p)))

\* C15 (amended): the sub-configuration's entry for the stage wins over the
\* handler registered with set(), which is used only when the
\* sub-configuration has no entry for that key. When the resolved handler is a
\* function the built-in handling of the stage is skipped; its return value is
\* the result of parseTags, parseTag, parseInlineTags, parseType and
\* parseParamType, while parseComment passes it through its common tail
\* (inline references of the description, emit) and fails on a handler that
\* returns nothing. When the resolved entry is not a function the built-in
\* handling runs, even if a function is registered with set().
C15_ResolvedHandlerDecides ==
  ret.op \in StagedOps
  => IF Resolved \in Callable
     THEN /\ HandlerResultReturned
          /\ ret.op = "parseComment"
             => IF Truthy(CallComment(Resolved, ret.arg))
                THEN /\ ret.result = Return(AfterTail(CallComment(Resolved, ret.arg)))
                     /\ emitted = <<ret.result.value>>
                ELSE /\ ret.result.outcome = "throw"
                     /\ ret.result.err.kind = "TypeError"
     ELSE ret.result = BuiltIn

C15_Witness ==
  /\ ret.op = "parseType"
  /\ Get(plugins.middleware, "type") = "override"
  /\ "parse" \in DOMAIN ret.options
  /\ ret.options.parse = [x \in {"type"} |-> "noop"]
  /\ ret.result = Return(Undefined)
  /\ CallType("override", ret.arg) = CustomType

\* ---------------------------------------------------------------- C16
\* C16: the function run(phase) returned looks its handlers up when it is
\* applied: it calls every handler registered by then for the node's type,
\* those registered after run(phase) returned included, in registration
\* order, up to the first that is not callable.
C16_HandlersResolvedOnApply ==
  ret.op = "apply"
  => IF \A i \in 1..Len(Registered) : Registered[i] \in Callable
     THEN /\ Returned
          /\ Chained(ret.result.calls, ret.node, Len(Registered))
     ELSE /\ ret.result.outcome = "throw"
          /\ Chained(ret.result.calls, ret.node, FirstBad - 1)

C16_Witness ==
  /\ ret.op = "apply"
  /\ ret.phase = "after"
  /\ ret.seen = 1
  /\ Registered = <<"rename", "upper">>
  /\ Returned
  /\ Len(ret.result.calls) = 2
  /\ ret.result.calls[2].fn = "upper"
  /\ ret.result.value.name = "X"

====
